---- MODULE Spec2Model ----
(***************************************************************************)
(* ACEest Fitness: a Flask service keeping workout records in the          *)
(* module-level list WORKOUTS (ACEest_Fitness.py).                         *)
(*                                                                         *)
(* Python strings are sequences of one-character strings, so that int()    *)
(* and str() are modelled by what they do to the characters.  Python/JSON  *)
(* values are records tagged by "kind":                                    *)
(*   str  [kind, s]     int [kind, n]      float [kind, repr]              *)
(*   bool [kind, b]     None [kind]        list  [kind, items]             *)
(*   dict [kind, keys, workout, duration]                                  *)
(***************************************************************************)
EXTENDS Integers, Sequences, FiniteSets, TLC

VARIABLES
    WORKOUTS,   \* the module-level list (ACEest_Fitness.py:5)
    op,         \* the operation that ran last
    request,    \* the body it was sent, when it was POST /api/workouts
    call,       \* the call of add_workout_logic it made: arguments and return value
    response,   \* the HTTP response it gave: [code, body]
    accepted,   \* history: the records of the POST requests answered 201, in order
    tpc,        \* per server thread: position inside get_workouts
    tlocal      \* per server thread: the len(WORKOUTS) it evaluated at line 54

vars == <<WORKOUTS, op, request, call, response, accepted, tpc, tlocal>>

----------------------------------------------------------------------------
(* Bounds of the model *)

MaxWorkouts == 2

NumThreads == 2

Threads == 1..NumThreads

----------------------------------------------------------------------------
(* Python values *)

PyStr(s) == [kind |-> "str", s |-> s]

PyInt(n) == [kind |-> "int", n |-> n]

PyFloat(repr) == [kind |-> "float", repr |-> repr]

PyBool(b) == [kind |-> "bool", b |-> b]

PyNone == [kind |-> "None"]

PyList(items) == [kind |-> "list", items |-> items]

PyDict(keys, workout, duration) ==
    [kind |-> "dict", keys |-> keys, workout |-> workout, duration |-> duration]

EmptyDict == PyDict({}, PyNone, PyNone)

\* bool(v): Python's truth value, as `not v` uses it.
Truthy(v) ==
    CASE v.kind = "str"   -> Len(v.s) > 0
      [] v.kind = "int"   -> v.n # 0
      [] v.kind = "float" -> v.repr \notin {<<"0", ".", "0">>, <<"-", "0", ".", "0">>}
      [] v.kind = "bool"  -> v.b
      [] v.kind = "None"  -> FALSE
      [] v.kind = "list"  -> Len(v.items) > 0
      [] v.kind = "dict"  -> v.keys # {}

Digit == {"0", "1", "2", "3", "4", "5", "6", "7", "8", "9"}

DigitVal(c) ==
    CASE c = "0" -> 0 [] c = "1" -> 1 [] c = "2" -> 2 [] c = "3" -> 3
      [] c = "4" -> 4 [] c = "5" -> 5 [] c = "6" -> 6 [] c = "7" -> 7
      [] c = "8" -> 8 [] c = "9" -> 9

DigitChar(d) ==
    CASE d = 0 -> "0" [] d = 1 -> "1" [] d = 2 -> "2" [] d = 3 -> "3"
      [] d = 4 -> "4" [] d = 5 -> "5" [] d = 6 -> "6" [] d = 7 -> "7"
      [] d = 8 -> "8" [] d = 9 -> "9"

Whitespace == {" ", "\t", "\n"}

RECURSIVE NatRepr(_)
NatRepr(n) ==
    IF n < 10 THEN <<DigitChar(n)>>
    ELSE NatRepr(n \div 10) \o <<DigitChar(n % 10)>>

\* str(n) of an int
IntRepr(n) == IF n < 0 THEN <<"-">> \o NatRepr(-n) ELSE NatRepr(n)

RECURSIVE JoinInts(_)
JoinInts(items) ==
    IF items = <<>> THEN <<>>
    ELSE IF Len(items) = 1 THEN IntRepr(items[1].n)
    ELSE IntRepr(items[1].n) \o <<",", " ">> \o JoinInts(Tail(items))

\* str(v), as line 42 applies it to whatever data.get returns.  Lists hold
\* ints and the only dict given to str() is the empty one.
str(v) ==
    CASE v.kind = "str"   -> v.s
      [] v.kind = "int"   -> IntRepr(v.n)
      [] v.kind = "float" -> v.repr
      [] v.kind = "bool"  -> IF v.b THEN <<"T", "r", "u", "e">>
                             ELSE <<"F", "a", "l", "s", "e">>
      [] v.kind = "None"  -> <<"N", "o", "n", "e">>
      [] v.kind = "list"  -> <<"[">> \o JoinInts(v.items) \o <<"]">>
      [] v.kind = "dict"  -> <<"{", "}">>

RECURSIVE LStrip(_)
LStrip(s) ==
    IF s # <<>> /\ s[1] \in Whitespace THEN LStrip(Tail(s)) ELSE s

RECURSIVE RStrip(_)
RStrip(s) ==
    IF s # <<>> /\ s[Len(s)] \in Whitespace
    THEN RStrip(SubSeq(s, 1, Len(s) - 1)) ELSE s

RECURSIVE DigitsValue(_, _)
DigitsValue(s, acc) ==
    IF s = <<>> THEN acc
    ELSE IF s[1] = "_" THEN DigitsValue(Tail(s), acc)
    ELSE DigitsValue(Tail(s), 10 * acc + DigitVal(s[1]))

\* The digit part of an int literal: digits, single underscores only between them.
WellFormedDigits(s) ==
    /\ s # <<>>
    /\ s[1] \in Digit
    /\ s[Len(s)] \in Digit
    /\ \A i \in 1..Len(s) : s[i] \in Digit \cup {"_"}
    /\ \A i \in 1..(Len(s) - 1) : ~(s[i] = "_" /\ s[i + 1] = "_")

\* int(s) of a str in base 10: [ok |-> TRUE, val |-> n], or ok = FALSE where
\* Python raises ValueError.
int(s) ==
    LET t == RStrip(LStrip(s))
        signed == t # <<>> /\ t[1] \in {"+", "-"}
        body == IF signed THEN Tail(t) ELSE t
    IN  IF WellFormedDigits(body)
        THEN [ok |-> TRUE,
              val |-> IF signed /\ t[1] = "-" THEN -DigitsValue(body, 0)
                      ELSE DigitsValue(body, 0)]
        ELSE [ok |-> FALSE, val |-> 0]

----------------------------------------------------------------------------
(* add_workout_logic, ACEest_Fitness.py:11-23 *)

APP_VERSION == <<"1", ".", "0">>

MsgBoth == "Please enter both workout and duration."

MsgPositive == "Duration must be a positive number."

MsgNumber == "Duration must be a number."

MsgAdded == "'{workout}' added successfully!"

\* The returned dict; `subject` is the value the f-string of line 21 formats.
Result(status, message, subject) ==
    [status |-> status, message |-> message, subject |-> subject]

\* Variant: the record is inserted at the front of the list.
add_workout_logic_prepend(W, workout, duration_str) ==
    IF ~Truthy(workout) \/ ~Truthy(duration_str)
    THEN [WORKOUTS |-> W, ret |-> Result("error", MsgBoth, PyNone)]
    ELSE LET duration == int(duration_str.s)
         IN  IF ~duration.ok
             THEN [WORKOUTS |-> W, ret |-> Result("error", MsgNumber, PyNone)]
             ELSE IF duration.val <= 0
             THEN [WORKOUTS |-> W, ret |-> Result("error", MsgPositive, PyNone)]
             ELSE [WORKOUTS |-> <<[workout |-> workout, duration |-> duration.val]>> \o W,
                   ret |-> Result("success", MsgAdded, workout)]

\* Variant: `duration < 0` instead of `duration <= 0`.
add_workout_logic_nonneg(W, workout, duration_str) ==
    IF ~Truthy(workout) \/ ~Truthy(duration_str)
    THEN [WORKOUTS |-> W, ret |-> Result("error", MsgBoth, PyNone)]
    ELSE LET duration == int(duration_str.s)
         IN  IF ~duration.ok
             THEN [WORKOUTS |-> W, ret |-> Result("error", MsgNumber, PyNone)]
             ELSE IF duration.val < 0
             THEN [WORKOUTS |-> W, ret |-> Result("error", MsgPositive, PyNone)]
             ELSE [WORKOUTS |-> Append(W, [workout |-> workout,
                                           duration |-> duration.val]),
                   ret |-> Result("success", MsgAdded, workout)]

\* Variant: the duration is parsed before the arguments are tested for emptiness.
add_workout_logic_parse_first(W, workout, duration_str) ==
    LET duration == int(duration_str.s)
    IN  IF Truthy(duration_str) /\ ~duration.ok
        THEN [WORKOUTS |-> W, ret |-> Result("error", MsgNumber, PyNone)]
        ELSE IF ~Truthy(workout) \/ ~Truthy(duration_str)
        THEN [WORKOUTS |-> W, ret |-> Result("error", MsgBoth, PyNone)]
        ELSE IF duration.val <= 0
        THEN [WORKOUTS |-> W, ret |-> Result("error", MsgPositive, PyNone)]
        ELSE [WORKOUTS |-> Append(W, [workout |-> workout,
                                      duration |-> duration.val]),
              ret |-> Result("success", MsgAdded, workout)]

\* Variant: the list keeps the two latest records only.
add_workout_logic_ring(W, workout, duration_str) ==
    IF ~Truthy(workout) \/ ~Truthy(duration_str)
    THEN [WORKOUTS |-> W, ret |-> Result("error", MsgBoth, PyNone)]
    ELSE LET duration == int(duration_str.s)
         IN  IF ~duration.ok
             THEN [WORKOUTS |-> W, ret |-> Result("error", MsgNumber, PyNone)]
             ELSE IF duration.val <= 0
             THEN [WORKOUTS |-> W, ret |-> Result("error", MsgPositive, PyNone)]
             ELSE [WORKOUTS |-> Append(IF Len(W) >= 2 THEN Tail(W) ELSE W,
                                       [workout |-> workout, duration |-> duration.val]),
                   ret |-> Result("success", MsgAdded, workout)]

\* Variant: only duration_str is tested for emptiness (`if not duration_str`).
add_workout_logic_any_workout(W, workout, duration_str) ==
    IF ~Truthy(duration_str)
    THEN [WORKOUTS |-> W, ret |-> Result("error", MsgBoth, PyNone)]
    ELSE LET duration == int(duration_str.s)
         IN  IF ~duration.ok
             THEN [WORKOUTS |-> W, ret |-> Result("error", MsgNumber, PyNone)]
             ELSE IF duration.val <= 0
             THEN [WORKOUTS |-> W, ret |-> Result("error", MsgPositive, PyNone)]
             ELSE [WORKOUTS |-> Append(W, [workout |-> workout,
                                           duration |-> duration.val]),
                   ret |-> Result("success", MsgAdded, workout)]

\* Variant: a rejected duration drops the latest record.
add_workout_logic_undo(W, workout, duration_str) ==
    IF ~Truthy(workout) \/ ~Truthy(duration_str)
    THEN [WORKOUTS |-> W, ret |-> Result("error", MsgBoth, PyNone)]
    ELSE LET duration == int(duration_str.s)
             dropped == IF W = <<>> THEN W ELSE SubSeq(W, 1, Len(W) - 1)
         IN  IF ~duration.ok
             THEN [WORKOUTS |-> dropped, ret |-> Result("error", MsgNumber, PyNone)]
             ELSE IF duration.val <= 0
             THEN [WORKOUTS |-> dropped, ret |-> Result("error", MsgPositive, PyNone)]
             ELSE [WORKOUTS |-> Append(W, [workout |-> workout,
                                           duration |-> duration.val]),
                   ret |-> Result("success", MsgAdded, workout)]

\* The call on the list W: the list afterwards and the returned dict.
add_workout_logic(W, workout, duration_str) ==
    IF ~Truthy(workout) \/ ~Truthy(duration_str)
    THEN [WORKOUTS |-> W, ret |-> Result("error", MsgBoth, PyNone)]
    ELSE LET duration == int(duration_str.s)
         IN  IF ~duration.ok
             THEN [WORKOUTS |-> W, ret |-> Result("error", MsgNumber, PyNone)]
             ELSE IF duration.val <= 0
             THEN [WORKOUTS |-> W, ret |-> Result("error", MsgPositive, PyNone)]
             ELSE [WORKOUTS |-> Append(W, [workout |-> workout,
                                           duration |-> duration.val]),
                   ret |-> Result("success", MsgAdded, workout)]

----------------------------------------------------------------------------
(* Inputs *)

Run == PyStr(<<"r", "u", "n">>)

Blank == PyStr(<<" ">>)

Empty == PyStr(<<>>)

\* Arguments of a direct call of add_workout_logic: two strings.
WorkoutArgs == {Empty, Run, Blank}

DurationArgs ==
    { Empty,
      PyStr(<<"3", "0">>), PyStr(<<"7">>), PyStr(<<" ", "3", "0", " ">>),
      PyStr(<<"+", "7">>), PyStr(<<"0", "7">>), PyStr(<<"3", "_", "0">>),
      PyStr(<<"0">>), PyStr(<<"-", "5">>), PyStr(<<"-", "0">>),
      PyStr(<<"a", "b", "c">>), PyStr(<<"2", ".", "5">>), PyStr(<<" ">>),
      PyStr(<<"_", "7">>), PyStr(<<"3", "_", "_", "0">>), PyStr(<<"+">>),
      PyStr(<<"3", " ", "0">>), PyStr(<<"-", " ", "5">>) }

\* Values of the "workout" and "duration" members of a JSON object body.
JsonWorkouts == {Empty, Run, PyNone, PyInt(7), PyInt(0), PyList(<<>>)}

JsonDurations ==
    { Empty, PyStr(<<"3", "0">>), PyStr(<<" ", "7">>), PyStr(<<"a", "b", "c">>),
      PyStr(<<"0">>), PyInt(30), PyInt(7), PyInt(0), PyInt(-5),
      PyFloat(<<"2", ".", "5">>), PyBool(TRUE), PyBool(FALSE), PyNone,
      PyList(<<>>), PyList(<<PyInt(7)>>), EmptyDict }

JsonObjects ==
    { PyDict(keys, IF "workout" \in keys THEN w ELSE PyNone,
                   IF "duration" \in keys THEN d ELSE PyNone) :
        keys \in SUBSET {"workout", "duration"},
        w \in JsonWorkouts, d \in JsonDurations }

\* A body that parses as JSON but is no object.
JsonNonObjects == {PyNone, PyList(<<>>), PyInt(5), Run, PyBool(TRUE)}

\* A body sent as JSON that does not parse.
Malformed == [kind |-> "malformed"]

\* A request without a JSON content type (an absent body included).
NonJson == [kind |-> "nonjson"]

Bodies == JsonObjects \cup JsonNonObjects \cup {Malformed, NonJson}

\* The bodies posted while GET requests are in progress.
ConcurrentBodies ==
    { PyDict({"workout", "duration"}, Run, PyInt(30)),
      PyDict({"workout", "duration"}, PyInt(7), PyStr(<<" ", "7">>)),
      PyDict({"workout", "duration"}, Run, PyNone) }

NoRequest == [kind |-> "none"]

NoCall == [called |-> FALSE]

NoResponse == [code |-> 0]

Called(workout, duration_str, ret) ==
    [called |-> TRUE, workout |-> workout, duration_str |-> duration_str, ret |-> ret]

----------------------------------------------------------------------------
(* flask: request.get_json() and dict.get *)

\* request.get_json(), line 40: the outcomes.  An unparseable JSON body raises
\* BadRequest; without a JSON content type it raises UnsupportedMediaType
\* (Flask >= 2.1) or returns None (older Flask).
get_json(body) ==
    CASE body.kind = "malformed" -> {[exc |-> "BadRequest", data |-> PyNone]}
      [] body.kind = "nonjson"   -> {[exc |-> "UnsupportedMediaType", data |-> PyNone],
                                     [exc |-> "none", data |-> PyNone]}
      [] OTHER                   -> {[exc |-> "none", data |-> body]}

\* The status Flask answers with when the view raises.
StatusOf(exc) ==
    CASE exc = "BadRequest" -> 400
      [] exc = "UnsupportedMediaType" -> 415
      [] OTHER -> 500

\* data.get(key, default)
dict_get(data, key, default) ==
    IF key \in data.keys THEN data[key] ELSE default

----------------------------------------------------------------------------
(* State machine *)

Init ==
    /\ WORKOUTS = <<>>
    /\ op = "init"
    /\ request = NoRequest
    /\ call = NoCall
    /\ response = NoResponse
    /\ accepted = <<>>
    /\ tpc = [t \in Threads |-> "idle"]
    /\ tlocal = [t \in Threads |-> 0]

\* A direct call add_workout_logic(workout, duration_str), lines 11-23.
CallLogic(workout, duration_str) ==
    LET r == add_workout_logic(WORKOUTS, workout, duration_str)
    IN  /\ Len(r.WORKOUTS) <= MaxWorkouts
        /\ WORKOUTS' = r.WORKOUTS
        /\ op' = "add_workout_logic"
        /\ call' = Called(workout, duration_str, r.ret)
        /\ request' = NoRequest
        /\ response' = NoResponse
        /\ UNCHANGED <<accepted, tpc, tlocal>>

\* GET /, lines 27-30.
home ==
    /\ op' = "home"
    /\ response' = [code |-> 200,
                    body |-> [text |-> "Welcome to ACEest Fitness & Gym! Application Version: ",
                              version |-> APP_VERSION]]
    /\ request' = NoRequest
    /\ call' = NoCall
    /\ UNCHANGED <<WORKOUTS, accepted, tpc, tlocal>>

\* Variant: the probe reports the state of the list.
health_check_by_list ==
    /\ op' = "health_check"
    /\ response' = [code |-> 200,
                    body |-> [status |-> IF WORKOUTS = <<>> THEN "UP" ELSE "DOWN",
                              version |-> APP_VERSION]]
    /\ request' = NoRequest
    /\ call' = NoCall
    /\ UNCHANGED <<WORKOUTS, accepted, tpc, tlocal>>

\* GET /health, lines 32-35.
health_check ==
    /\ op' = "health_check"
    /\ response' = [code |-> 200, body |-> [status |-> "UP", version |-> APP_VERSION]]
    /\ request' = NoRequest
    /\ call' = NoCall
    /\ UNCHANGED <<WORKOUTS, accepted, tpc, tlocal>>

\* The record a request body asks to store: its workout member and the integer
\* its duration member denotes.
RecordOf(body) ==
    [workout |-> body.workout, duration |-> int(str(body.duration)).val]

\* Variant: the view answers 201 whatever add_workout_logic returned.
add_workout_outcomes_created(W, body) ==
    { IF g.exc # "none"
      THEN [WORKOUTS |-> W, call |-> NoCall,
            response |-> [code |-> StatusOf(g.exc), body |-> g.exc]]
      ELSE IF g.data.kind # "dict"
      THEN [WORKOUTS |-> W, call |-> NoCall,
            response |-> [code |-> StatusOf("AttributeError"), body |-> "AttributeError"]]
      ELSE LET workout == dict_get(g.data, "workout", PyStr(<<>>))
               duration_str == PyStr(str(dict_get(g.data, "duration", PyStr(<<>>))))
               r == add_workout_logic(W, workout, duration_str)
           IN  [WORKOUTS |-> r.WORKOUTS,
                call |-> Called(workout, duration_str, r.ret),
                response |-> [code |-> 201, body |-> r.ret]]
      : g \in get_json(body) }

\* The view add_workout on the list W, lines 38-48: the outcomes, each the list
\* afterwards, the call of add_workout_logic and the response.
add_workout_outcomes(W, body) ==
    { IF g.exc # "none"
      THEN [WORKOUTS |-> W, call |-> NoCall,
            response |-> [code |-> StatusOf(g.exc), body |-> g.exc]]
      ELSE IF g.data.kind # "dict"
      THEN [WORKOUTS |-> W, call |-> NoCall,
            response |-> [code |-> StatusOf("AttributeError"), body |-> "AttributeError"]]
      ELSE LET workout == dict_get(g.data, "workout", PyStr(<<>>))
               duration_str == PyStr(str(dict_get(g.data, "duration", PyStr(<<>>))))
               r == add_workout_logic(W, workout, duration_str)
           IN  [WORKOUTS |-> r.WORKOUTS,
                call |-> Called(workout, duration_str, r.ret),
                response |-> [code |-> IF r.ret.status = "error" THEN 400 ELSE 201,
                              body |-> r.ret]]
      : g \in get_json(body) }

\* POST /api/workouts, lines 37-48.
add_workout(body) ==
    \E o \in add_workout_outcomes(WORKOUTS, body) :
        /\ Len(o.WORKOUTS) <= MaxWorkouts
        /\ WORKOUTS' = o.WORKOUTS
        /\ op' = "add_workout"
        /\ request' = body
        /\ call' = o.call
        /\ response' = o.response
        /\ accepted' = IF o.response.code = 201
                       THEN Append(accepted, RecordOf(body)) ELSE accepted
        /\ UNCHANGED <<tpc, tlocal>>

\* The summary of lines 53-56 and its serialisation, line 57.
Summary(total, workouts) ==
    [code |-> 200, body |-> [total_workouts |-> total, workouts |-> workouts]]

\* Variant: the listing starts at the second record.
get_workouts_skip_first ==
    /\ op' = "get_workouts"
    /\ response' = Summary(Len(WORKOUTS), IF WORKOUTS = <<>> THEN WORKOUTS ELSE Tail(WORKOUTS))
    /\ request' = NoRequest
    /\ call' = NoCall
    /\ UNCHANGED <<WORKOUTS, accepted, tpc, tlocal>>

\* GET /api/workouts, lines 50-57, run without interruption.
get_workouts ==
    /\ op' = "get_workouts"
    /\ response' = Summary(Len(WORKOUTS), WORKOUTS)
    /\ request' = NoRequest
    /\ call' = NoCall
    /\ UNCHANGED <<WORKOUTS, accepted, tpc, tlocal>>

\* get_workouts in thread t, line 54: len(WORKOUTS) is evaluated.
get_workouts_len(t) ==
    /\ tpc[t] = "idle"
    /\ tpc' = [tpc EXCEPT ![t] = "line55"]
    /\ tlocal' = [tlocal EXCEPT ![t] = Len(WORKOUTS)]
    /\ UNCHANGED <<WORKOUTS, op, request, call, response, accepted>>

\* get_workouts in thread t, lines 55-57: the list is read and serialised.
get_workouts_jsonify(t) ==
    /\ tpc[t] = "line55"
    /\ op' = "get_workouts"
    /\ response' = Summary(tlocal[t], WORKOUTS)
    /\ tpc' = [tpc EXCEPT ![t] = "idle"]
    /\ tlocal' = [tlocal EXCEPT ![t] = 0]
    /\ request' = NoRequest
    /\ call' = NoCall
    /\ UNCHANGED <<WORKOUTS, accepted>>

\* The service handling one request at a time.
Next ==
    \/ home
    \/ health_check
    \/ \E body \in Bodies : add_workout(body)
    \/ get_workouts

Spec == Init /\ [][Next]_vars

\* add_workout_logic called as a function.
LogicNext ==
    \E workout \in WorkoutArgs, duration_str \in DurationArgs :
        CallLogic(workout, duration_str)

LogicSpec == Init /\ [][LogicNext]_vars

\* Requests and direct calls.
AllNext ==
    \/ Next
    \/ LogicNext

AllSpec == Init /\ [][AllNext]_vars

\* Threads serving requests at the same time: a GET is two steps, and the
\* other views touch WORKOUTS in at most one step (the append of line 20).
ConcNext ==
    \/ \E t \in Threads : get_workouts_len(t)
    \/ \E t \in Threads : get_workouts_jsonify(t)
    \/ \E body \in ConcurrentBodies : add_workout(body)
    \/ health_check

ConcSpec == Init /\ [][ConcNext]_vars

----------------------------------------------------------------------------
(* Properties *)

IsPrefix(s, t) == Len(s) <= Len(t) /\ SubSeq(t, 1, Len(s)) = s

\* The step appended exactly one record and kept the earlier ones in place.
AppendedOne == Len(WORKOUTS') = Len(WORKOUTS) + 1 /\ IsPrefix(WORKOUTS, WORKOUTS')

\* C1: GET /health answers 200 with status "UP" and version "1.0" from every
\* reachable state, and leaves the workout list unchanged.
C1_HealthUp ==
    /\ [](ENABLED health_check)
    /\ [][op' = "health_check" =>
            /\ response'.code = 200
            /\ response'.body.status = "UP"
            /\ response'.body.version = <<"1", ".", "0">>
            /\ WORKOUTS' = WORKOUTS]_vars

C1_Witness == op = "health_check" /\ Len(WORKOUTS) >= 2

\* C2: a direct call with a non-empty workout and a non-empty duration_str that
\* parses as an integer d > 0 returns "success" and appends exactly the record
\* {workout, d} at the end of the list, the earlier elements untouched.
C2_SuccessAppends ==
    [][(/\ op' = "add_workout_logic"
        /\ Len(call'.workout.s) > 0
        /\ Len(call'.duration_str.s) > 0
        /\ int(call'.duration_str.s).ok
        /\ int(call'.duration_str.s).val > 0)
       =>
       (/\ call'.ret.status = "success"
        /\ Len(WORKOUTS') = Len(WORKOUTS) + 1
        /\ WORKOUTS'[Len(WORKOUTS')] =
              [workout |-> call'.workout, duration |-> int(call'.duration_str.s).val]
        /\ WORKOUTS'[Len(WORKOUTS')].duration \in Int
        /\ \A i \in 1..Len(WORKOUTS) : WORKOUTS'[i] = WORKOUTS[i])]_vars

C2_Witness ==
    /\ op = "add_workout_logic"
    /\ call.ret.status = "success"
    /\ call.duration_str = PyStr(<<" ", "3", "0", " ">>)
    /\ Len(WORKOUTS) >= 2
    /\ WORKOUTS[Len(WORKOUTS)] = [workout |-> Run, duration |-> 30]
    /\ WORKOUTS[1] # WORKOUTS[Len(WORKOUTS)]

\* The inputs the claim names as erroneous.
IsErrorInput(workout, duration_str) ==
    \/ Len(workout.s) = 0
    \/ Len(duration_str.s) = 0
    \/ ~int(duration_str.s).ok
    \/ int(duration_str.s).val <= 0

\* C3: add_workout_logic returns "error" exactly for an empty workout, an empty
\* duration_str, a duration_str that is no integer or an integer <= 0, and then
\* WORKOUTS is the same list as before the call.
C3_ErrorLeavesList ==
    [][op' = "add_workout_logic" =>
         /\ (call'.ret.status = "error") <=> IsErrorInput(call'.workout, call'.duration_str)
         /\ call'.ret.status \in {"error", "success"}
         /\ call'.ret.status = "error" => WORKOUTS' = WORKOUTS]_vars

C3_Witness ==
    /\ op = "add_workout_logic"
    /\ call.ret.status = "error"
    /\ call.workout = Run
    /\ call.duration_str = PyStr(<<"0">>)
    /\ Len(WORKOUTS) >= 1

\* The message the claim gives for an input, "" for an input it calls valid:
\* emptiness first, then the parse, then the sign.
ExpectedMessage(workout, duration_str) ==
    IF Len(workout.s) = 0 \/ Len(duration_str.s) = 0 THEN MsgBoth
    ELSE IF ~int(duration_str.s).ok THEN MsgNumber
    ELSE IF int(duration_str.s).val <= 0 THEN MsgPositive
    ELSE ""

\* C8: add_workout_logic reports the first failing check in the order empty
\* argument, not an integer, not positive, and every error result carries
\* exactly one of the three messages.
C8_FirstFailingCheck ==
    op = "add_workout_logic" =>
        LET expected == ExpectedMessage(call.workout, call.duration_str)
        IN  /\ expected # "" => (call.ret.status = "error" /\ call.ret.message = expected)
            /\ call.ret.status = "error" =>
                  /\ call.ret.message = expected
                  /\ call.ret.message \in {MsgBoth, MsgNumber, MsgPositive}

C8_Witness ==
    /\ op = "add_workout_logic"
    /\ call.workout = Empty
    /\ call.duration_str = PyStr(<<"a", "b", "c">>)
    /\ call.ret.message = MsgBoth

\* C4 as claimed: POST /api/workouts answers 201 exactly when it appended one
\* record, and 400 exactly when add_workout_logic reported an error and the
\* list was left unchanged.
C4_Original ==
    [][op' = "add_workout" =>
         /\ (response'.code = 201) <=> AppendedOne
         /\ (response'.code = 400) <=>
               (call'.called /\ call'.ret.status = "error" /\ WORKOUTS' = WORKOUTS)
         /\ WORKOUTS' # WORKOUTS => response'.code = 201]_vars

\* C4 amended: POST /api/workouts answers 201 exactly when it appended one
\* record; it answers 400 exactly when add_workout_logic reported an error or
\* request.get_json() rejected an unparseable body before add_workout_logic was
\* called, and a 400 answer always leaves the list unchanged.
C4_Amended ==
    [][op' = "add_workout" =>
         /\ (response'.code = 201) <=> AppendedOne
         /\ (response'.code = 400) <=>
               \/ call'.called /\ call'.ret.status = "error"
               \/ ~call'.called /\ request'.kind = "malformed"
         /\ response'.code = 400 => WORKOUTS' = WORKOUTS
         /\ WORKOUTS' # WORKOUTS => response'.code = 201]_vars

C4_Witness ==
    /\ op = "add_workout"
    /\ request = Malformed
    /\ response.code = 400
    /\ ~call.called
    /\ Len(WORKOUTS) >= 1

\* C5: GET /api/workouts returns exactly the records of the POST requests
\* answered 201 so far, in the order they were processed, with total_workouts
\* their number; a request answered 400 contributes nothing and the GET does
\* not change the list.
C5_ListIsAccepted ==
    [][/\ op' = "get_workouts" =>
            /\ response'.body.workouts = accepted'
            /\ response'.body.total_workouts = Len(accepted')
            /\ accepted' = accepted
            /\ WORKOUTS' = WORKOUTS
       /\ (op' = "add_workout" /\ response'.code = 400) =>
            (accepted' = accepted /\ WORKOUTS' = WORKOUTS)
       /\ (op' = "add_workout" /\ response'.code = 201) =>
            accepted' = Append(accepted, RecordOf(request'))]_vars

C5_Witness ==
    /\ op = "get_workouts"
    /\ response.body.total_workouts = 2
    /\ response.body.workouts[1] = [workout |-> PyInt(7), duration |-> 30]
    /\ response.body.workouts[2] = [workout |-> Run, duration |-> 7]

\* C6: the list is append-only: across every step the list before is a prefix
\* of the list after, and a valid add is appended whatever the length reached.
C6_AppendOnly ==
    /\ [][IsPrefix(WORKOUTS, WORKOUTS')]_vars
    /\ [](Len(add_workout_logic(WORKOUTS, Run, PyStr(<<"3", "0">>)).WORKOUTS)
             = Len(WORKOUTS) + 1)

C6_Witness ==
    /\ op = "add_workout"
    /\ response.code = 201
    /\ Len(WORKOUTS) >= 2
    /\ WORKOUTS[1] # WORKOUTS[2]

\* C7: every stored record has a non-empty (truthy) workout and an integer
\* duration > 0, whether added by a direct call or by a POST with any JSON
\* object body.
C7_RecordsValid ==
    \A i \in 1..Len(WORKOUTS) :
        /\ Truthy(WORKOUTS[i].workout)
        /\ WORKOUTS[i].duration \in Int
        /\ WORKOUTS[i].duration > 0

C7_Witness ==
    /\ Len(WORKOUTS) >= 2
    /\ WORKOUTS[1] = [workout |-> PyInt(7), duration |-> 30]
    /\ WORKOUTS[2] = [workout |-> Blank, duration |-> 7]

\* C9 as claimed: every POST /api/workouts is answered 201 or 400, whatever its
\* body.
C9_Claim == op = "add_workout" => response.code \in {201, 400}

\* C10 as claimed: with GET and POST handled concurrently, every GET response
\* has total_workouts equal to the number of records in its workouts field.
C10_Original ==
    op = "get_workouts" =>
        response.body.total_workouts = Len(response.body.workouts)

\* C10 amended: with GET and POST handled concurrently, every GET response has
\* total_workouts at most the number of records in its workouts field.
C10_Amended ==
    op = "get_workouts" =>
        response.body.total_workouts <= Len(response.body.workouts)

C10_Witness ==
    /\ op = "get_workouts"
    /\ response.body.total_workouts = 1
    /\ Len(response.body.workouts) = 2

====
